---- MODULE Spec2Model ----
(***************************************************************************)
(* A model of SublimeGotoUsage: the dependency graph (dep_graph.py), the   *)
(* graph registry, cache and build commands (core.py, GotoUsage.py,        *)
(* utils.py) and the genuine-usage predicate of the scanner (core.py).     *)
(***************************************************************************)
EXTENDS Integers, Sequences, FiniteSets, TLC

VARIABLES
    graph,      \* SpecGraph: the DepGraph object under test
    snapshot,   \* SpecGraph: the last get_data() snapshot, serialised (or NoData)
    ret,        \* SpecGraph: what the last query returned (or NoRet)
    nops,       \* SpecGraph: number of calls made so far
    graphs,     \* core.graphs: project name -> {last_update, graph}
    building_graphs, \* GotoUsage.building_graphs: list of project names
    builds,     \* the build commands in flight: worker thread and progress poll
    cache,      \* the per-project cache files
    imports,    \* the resolved imports of each project file, as on disk
    now,        \* time.time(), in seconds
    loaded,     \* what the last core.load_graph call did
    query,      \* the last goto_usage command
    loading_start, \* GotoUsageBuildGraphCommand.loading_start, per window
    nevents,    \* number of user and editor events so far
    cur_line,   \* SpecUsage: a line of a scanned file, as a list of characters
    cur_subject, \* SpecUsage: the subject searched for, as a list of characters
    usage,      \* SpecUsage: what is_actual_usage(line, subject) returned
    the_file,       \* SpecParse: the file being read, a list of lines
    yield_context,  \* SpecParse: the context mask parse_lines was called with
    caller,         \* SpecParse: who iterates over parse_lines
    current_context, \* SpecParse: the context stack of parse_lines
    line_nr,        \* SpecParse: lines read so far
    line_start,     \* SpecParse: the offset parse_lines keeps
    yielded,        \* SpecParse: the tuples parse_lines has yielded
    usage_regions,  \* SpecParse: the records get_usages_in_file has collected
    search,         \* SpecSearch: a multi-file usage search and its thread
    undecodable,    \* SpecRefresh: the files on disk that do not decode as utf8
    refresh,        \* SpecRefresh: what the last refresh_dependencies call did
    string_ranges,  \* SpecStrings: what find_strings(line) returned
    view,           \* SpecSubject: the view, its cursor and the subject found
    resolved        \* SpecResolve: the disk and what resolve_dep_paths returned

gvars == <<graph, snapshot, ret, nops>>

pvars == <<graphs, building_graphs, builds, cache, imports, now, loaded, query,
           loading_start, nevents>>

fvars == <<the_file, yield_context, caller, current_context, line_nr, line_start,
           yielded, usage_regions>>

rvars == <<undecodable, refresh>>

nvars == <<view, resolved>>

svars == <<cur_line, cur_subject, usage, fvars, search, rvars, string_ranges,
           nvars>>

vars == <<graph, snapshot, ret, nops, graphs, building_graphs, builds, cache,
          imports, now, loaded, query, loading_start, nevents, cur_line,
          cur_subject, usage, the_file, yield_context, caller, current_context,
          line_nr, line_start, yielded, usage_regions, search, undecodable,
          refresh, string_ranges, view, resolved>>

-----------------------------------------------------------------------------
(* Bounds and input sets *)

\* SpecGraph: number of mutating DepGraph calls in one behaviour.
MaxOps == 3

\* SpecAdd: number of add calls in one behaviour.
MaxAdds == 4

\* DepGraph.__init__'s default loop_limit.
DefaultLoopLimit == 50

\* The file paths used as graph nodes.
Nodes == {"a", "b", "c", "d"}

\* SpecGraph: the files whose imports are recorded, and the files they import.
Dependants == {"a", "b"}

Dependees == {"a", "b", "c"}

\* Lists passed as `dependee`: empty, single, repeating an edge, two edges.
DependeeLists == {<<>>, <<"b">>, <<"b", "b">>, <<"b", "c">>, <<"c", "a">>}

\* loop_limit values a DepGraph is constructed with.
LoopLimits == {1, DefaultLoopLimit}

-----------------------------------------------------------------------------
(* Python values *)

\* A `dependee` argument: a single node, or a list of nodes.
Item(d) == [is_list |-> FALSE, items |-> <<d>>]

List(s) == [is_list |-> TRUE, items |-> s]

DependeeArgs == {Item(d) : d \in Dependees} \cup {List(s) : s \in DependeeLists}

\* x in list
Contains(s, x) == \E i \in 1..Len(s) : s[i] = x

\* set(list)
Range(s) == {s[i] : i \in 1..Len(s)}

\* {}
EmptyDict == [k \in {} |-> <<>>]

\* dict.get(k, [])
Get(d, k) == IF k \in DOMAIN d THEN d[k] ELSE <<>>

\* d[k] = v
Put(d, k, v) == [x \in (DOMAIN d) \cup {k} |-> IF x = k THEN v ELSE d[x]]

\* list.append(x) unless x is in the list already
AppendNew(s, x) == IF Contains(s, x) THEN s ELSE Append(s, x)

RECURSIVE SumLens(_)
\* len([dep for deps in d.values() for dep in deps])
SumLens(d) ==
    IF DOMAIN d = {} THEN 0
    ELSE LET k == CHOOSE x \in DOMAIN d : TRUE
         IN Len(d[k]) + SumLens([x \in (DOMAIN d) \ {k} |-> d[x]])

-----------------------------------------------------------------------------
(* dep_graph.py: class DepGraph *)

\* DepGraph(loop_limit): __init__ and clear()
DepGraph(limit) ==
    [forward_graph |-> EmptyDict, backward_graph |-> EmptyDict,
     num_deps |-> 0, loop_limit |-> limit]

clear(self) ==
    [self EXCEPT !.forward_graph = EmptyDict, !.backward_graph = EmptyDict,
                 !.num_deps = 0]

RECURSIVE add(_, _, _)
add(self, dependant, dependee) ==
    IF dependee.is_list
    THEN \* for d in dependee: self.add(dependant, d)
         IF dependee.items = <<>> THEN self
         ELSE add(add(self, dependant, Item(Head(dependee.items))),
                  dependant, List(Tail(dependee.items)))
    ELSE LET d == dependee.items[1]
             fwd == Put(self.forward_graph, dependant,
                        AppendNew(Get(self.forward_graph, dependant), d))
             bwd == Put(self.backward_graph, d,
                        AppendNew(Get(self.backward_graph, d), dependant))
         IN [self EXCEPT !.num_deps = @ + 1,
                         !.forward_graph = fwd,
                         !.backward_graph = bwd]

\* set: clear dependant's forward list, then add (a list or a single dependee)
set(self, dependant, dependee) ==
    LET cleared ==
            IF dependant \in DOMAIN self.forward_graph
            THEN [self EXCEPT
                    !.num_deps = @ - Len(self.forward_graph[dependant]),
                    !.forward_graph = Put(@, dependant, <<>>)]
            ELSE self
    IN add(cleared, dependant, dependee)

\* get_data: both mappings (serialised by the caller, so a copy): a copy of both mappings
get_data(self) ==
    [forward |-> self.forward_graph, backward |-> self.backward_graph]

\* Variant: only the forward mapping is restored.
set_data_forward_only(self, data) ==
    [self EXCEPT !.forward_graph = data.forward,
                 !.backward_graph = EmptyDict,
                 !.num_deps = SumLens(data.forward)]

set_data(self, data) ==
    [self EXCEPT !.forward_graph = data.forward,
                 !.backward_graph = data.backward,
                 !.num_deps = SumLens(data.forward)]

RECURSIVE expand_level(_, _, _)
\* one level: for s in subjects: current_results.extend(
\*     [i for i in graph.get(s, []) if i not in results])
expand_level(g, subjects, results) ==
    IF subjects = <<>> THEN <<>>
    ELSE SelectSeq(Get(g, Head(subjects)), LAMBDA n : ~Contains(results, n))
         \o expand_level(g, Tail(subjects), results)

RECURSIVE traverse_loop_off_by_one(_, _, _, _, _)
\* Variant: the loop runs loop_limit + 1 times.
traverse_loop_off_by_one(g, subjects, results, i, limit) ==
    IF i >= limit + 1 THEN [results |-> results, levels |-> i]
    ELSE LET current_results == expand_level(g, subjects, results)
         IN IF current_results = <<>>
            THEN [results |-> results, levels |-> i + 1]
            ELSE traverse_loop_off_by_one(g, current_results,
                                          results \o current_results,
                                          i + 1, limit)

RECURSIVE traverse_loop(_, _, _, _, _)
\* the loop `for i in range(loop_limit)`; levels counts the iterations begun
traverse_loop(g, subjects, results, i, limit) ==
    IF i >= limit THEN [results |-> results, levels |-> i]
    ELSE LET current_results == expand_level(g, subjects, results)
         IN IF current_results = <<>>
            THEN [results |-> results, levels |-> i + 1]
            ELSE traverse_loop(g, current_results, results \o current_results,
                               i + 1, limit)

\* _traverse_graph: the result list(set(results)) as the set of its elements
\* (the order of that list is unspecified), with the number of levels expanded
traverse_graph(self, g, subject) ==
    LET r == traverse_loop(g, <<subject>>, <<>>, 0, self.loop_limit)
    IN [results |-> Range(r.results), levels |-> r.levels]

\* Variant: the dependants are looked up in the forward mapping.
get_dependants_forward(self, dependee) ==
    traverse_graph(self, self.forward_graph, dependee)

get_dependants(self, dependee) ==
    traverse_graph(self, self.backward_graph, dependee)

get_dependees(self, dependant) ==
    traverse_graph(self, self.forward_graph, dependant)

-----------------------------------------------------------------------------
(* SpecGraph: a client calling one DepGraph object *)

NoData == [forward |-> EmptyDict, backward |-> EmptyDict, valid |-> FALSE]

NoRet == [op |-> "none", subject |-> "", results |-> {}, levels |-> 0]

CallAdd(p, dep) ==
    /\ nops < MaxOps
    /\ graph' = add(graph, p, dep)
    /\ ret' = NoRet
    /\ nops' = nops + 1
    /\ UNCHANGED <<snapshot, pvars, svars>>

CallSet(p, dep) ==
    /\ nops < MaxOps
    /\ graph' = set(graph, p, dep)
    /\ ret' = NoRet
    /\ nops' = nops + 1
    /\ UNCHANGED <<snapshot, pvars, svars>>

CallClear ==
    /\ nops < MaxOps
    /\ graph' = clear(graph)
    /\ ret' = NoRet
    /\ nops' = nops + 1
    /\ UNCHANGED <<snapshot, pvars, svars>>

CallGetData ==
    /\ nops < MaxOps
    /\ snapshot' = [forward |-> get_data(graph).forward,
                    backward |-> get_data(graph).backward, valid |-> TRUE]
    /\ ret' = NoRet
    /\ nops' = nops + 1
    /\ UNCHANGED <<graph, pvars, svars>>

CallSetData ==
    /\ nops < MaxOps
    /\ snapshot.valid
    /\ graph' = set_data(graph, snapshot)
    /\ ret' = NoRet
    /\ nops' = nops + 1
    /\ UNCHANGED <<snapshot, pvars, svars>>

CallGetDependants(x) ==
    /\ ret' = [op |-> "get_dependants", subject |-> x,
               results |-> get_dependants(graph, x).results,
               levels |-> get_dependants(graph, x).levels]
    /\ UNCHANGED <<graph, snapshot, nops, pvars, svars>>

CallGetDependees(x) ==
    /\ ret' = [op |-> "get_dependees", subject |-> x,
               results |-> get_dependees(graph, x).results,
               levels |-> get_dependees(graph, x).levels]
    /\ UNCHANGED <<graph, snapshot, nops, pvars, svars>>

\* No line is being scanned.
ScanIdle ==
    /\ cur_line = <<>>
    /\ cur_subject = <<>>
    /\ usage = [checked |-> FALSE, result |-> FALSE]
    /\ the_file = <<>>
    /\ yield_context = {}
    /\ caller = "none"
    /\ current_context = <<>>
    /\ line_nr = 0
    /\ line_start = 0
    /\ yielded = <<>>
    /\ usage_regions = <<>>
    /\ search = [status |-> "idle"]
    /\ undecodable = {}
    /\ refresh = [done |-> FALSE]
    /\ string_ranges = [found |-> FALSE]
    /\ view = [status |-> "idle"]
    /\ resolved = [status |-> "idle"]

\* The plugin is not loaded: its state is empty and stays so.
PluginIdle ==
    /\ graphs = EmptyDict
    /\ building_graphs = <<>>
    /\ builds = <<>>
    /\ cache = EmptyDict
    /\ imports = EmptyDict
    /\ now = 0
    /\ loaded = [called |-> FALSE]
    /\ query = [phase |-> "idle"]
    /\ loading_start = EmptyDict
    /\ nevents = 0

GraphInit ==
    /\ graph \in {DepGraph(l) : l \in LoopLimits}
    /\ snapshot = NoData
    /\ ret = NoRet
    /\ nops = 0
    /\ PluginIdle
    /\ ScanIdle

GraphNext ==
    \/ \E p \in Dependants, dep \in DependeeArgs : CallAdd(p, dep)
    \/ \E p \in Dependants, dep \in DependeeArgs : CallSet(p, dep)
    \/ CallClear
    \/ CallGetData
    \/ CallSetData
    \/ \E x \in Dependees : CallGetDependants(x)
    \/ \E x \in Dependees : CallGetDependees(x)

SpecGraph == GraphInit /\ [][GraphNext]_vars

-----------------------------------------------------------------------------
(* SpecAdd: a graph built only by add calls, then queried *)

BuildAdd(p, dep) ==
    /\ nops < MaxAdds
    /\ graph' = add(graph, p, dep)
    /\ ret' = NoRet
    /\ nops' = nops + 1
    /\ UNCHANGED <<snapshot, pvars, svars>>

AddNext ==
    \/ \E p \in Dependants, d \in Nodes : BuildAdd(p, Item(d))
    \/ \E p \in Dependants : BuildAdd(p, List(<<"c", "d">>))
    \/ \E x \in Nodes : CallGetDependants(x)
    \/ \E x \in Nodes : CallGetDependees(x)

SpecAdd == GraphInit /\ [][AddNext]_vars

-----------------------------------------------------------------------------
(* The plugin: registry, cache, build command, usage command *)

\* SpecPlugin: number of user and editor events (commands, saves, time
\* passing) in one behaviour.
MaxEvents == 3

\* The open projects; each has one window, named like its project.
Projects == {"p", "q"}

\* Python's None (no project_name argument; no last_update yet).
None == "None"

\* The files of the project folders, in the order os.walk yields them.
WalkOrder == <<"a", "b">>

Files == Range(WalkOrder)

\* GotoUsage.py:125, `time.time() - self.loading_start > 60`
BailAfter == 60

\* core.py:344, `time.time() - 1000 * 60 * 60 * 24`, in seconds of time.time()
StaleAfter == 1000 * 60 * 60 * 24

\* 24 hours in seconds of time.time()
Day == 60 * 60 * 24

\* The clock at plugin start.
StartTime == 2 * StaleAfter

\* The imports on disk at plugin start: the cycle a <-> b.
InitialImports == [a |-> {"b"}, b |-> {"a"}]

\* All orders of a set as a list: list(set(...)) has no specified order.
Orderings(S) ==
    {s \in [1..Cardinality(S) -> S] : \A i, j \in 1..Cardinality(S) :
                                         i # j => s[i] # s[j]}

\* del s[s.index(x)]
RemoveFirst(s, x) ==
    LET i == CHOOSE k \in 1..Len(s) :
                 s[k] = x /\ \A j \in 1..(k - 1) : s[j] # x
    IN [k \in 1..(Len(s) - 1) |-> IF k < i THEN s[k] ELSE s[k + 1]]

\* core.get_dependencies_in_file of a decodable file: the resolved imports
\* without the file itself, list(set(...)) in any order.
get_dependencies_in_file(imp, file_path) ==
    Orderings(imp[file_path] \ {file_path})

\* g = {'last_update': None, 'graph': DepGraph()}
NewRecord == [last_update |-> None, graph |-> DepGraph(DefaultLoopLimit)]

\* utils.save_graph: the JSON written to the project's cache file.
save_graph(c, g, project_name) ==
    Put(c, project_name,
        [last_update |-> g.last_update, graph |-> get_data(g.graph)])

\* utils.load_graph of an existing, well-formed cache file.
utils_load_graph(c, project_name) ==
    [last_update |-> c[project_name].last_update,
     graph |-> set_data(DepGraph(DefaultLoopLimit), c[project_name].graph)]

\* The main-thread state the commands act on.
PluginState ==
    [graphs |-> graphs, building_graphs |-> building_graphs,
     builds |-> builds, loading_start |-> loading_start]

\* A build whose worker has finished and whose poll has stopped is gone.
Prune(bs) == SelectSeq(bs, LAMBDA b : b.running \/ b.polling)

\* Variant: the record is put into the registry when its build starts.
run_build_registers(S, project_name, window, t) ==
    IF Contains(S.building_graphs, project_name) THEN S
    ELSE LET name == IF project_name = None THEN window ELSE project_name
             building == Append(S.building_graphs, name)
             b == [project_name |-> name, window |-> window, g |-> NewRecord,
                   todo |-> WalkOrder, polling |-> (building[1] = name),
                   running |-> TRUE]
         IN [S EXCEPT !.building_graphs = building,
                      !.builds = Append(@, b),
                      !.graphs = Put(@, name, NewRecord),
                      !.loading_start = Put(@, window, t)]

\* GotoUsageBuildGraphCommand.run in window `window` at time t
run_build(S, project_name, window, t) ==
    IF Contains(S.building_graphs, project_name) THEN S
    ELSE LET name == IF project_name = None THEN window ELSE project_name
             building == Append(S.building_graphs, name)
             \* show_progress(): the first call schedules the poll unless
             \* another project heads the list
             b == [project_name |-> name, window |-> window, g |-> NewRecord,
                   todo |-> WalkOrder, polling |-> (building[1] = name),
                   running |-> TRUE]
         IN [S EXCEPT !.building_graphs = building,
                      !.builds = Append(@, b),
                      !.loading_start = Put(@, window, t)]

\* show_progress, called by the timer of build i at time t
show_progress(S, i, t) ==
    LET b == S.builds[i]
        name == b.project_name
    IN IF ~Contains(S.building_graphs, name) \/ name # S.building_graphs[1]
       THEN [S EXCEPT !.builds = Prune([@ EXCEPT ![i].polling = FALSE])]
       ELSE IF t - S.loading_start[b.window] > BailAfter
            THEN [S EXCEPT
                    !.building_graphs = RemoveFirst(@, name),
                    !.builds = Prune([@ EXCEPT ![i].polling = FALSE])]
            ELSE S

\* Variant: a stale graph is installed as well as rebuilt.
load_graph_install_stale(S, c, project_name, window, t) ==
    LET found == project_name \in DOMAIN c
        g == utils_load_graph(c, project_name)
        what == [called |-> TRUE, project |-> project_name, found |-> found,
                 at |-> t,
                 last_update |-> IF found THEN g.last_update ELSE None,
                 num_deps |-> IF found THEN g.graph.num_deps ELSE 0,
                 rebuild |-> FALSE, installed |-> FALSE]
    IN IF ~found \/ g.graph.num_deps = 0
       THEN [state |-> run_build(S, project_name, window, t),
             loaded |-> [what EXCEPT !.rebuild = TRUE]]
       ELSE IF g.last_update < t - StaleAfter
            THEN [state |-> [run_build(S, project_name, window, t)
                                EXCEPT !.graphs = Put(@, project_name, g)],
                  loaded |-> [what EXCEPT !.rebuild = TRUE,
                                          !.installed = TRUE]]
            ELSE [state |-> [S EXCEPT !.graphs = Put(@, project_name, g)],
                  loaded |-> [what EXCEPT !.installed = TRUE]]

\* core.load_graph at time t, with the cache files c. `loaded` records the
\* call: what it found, whether it ran the build command (rebuild) and
\* whether it put the loaded graph in graphs (installed).
load_graph(S, c, project_name, window, t) ==
    LET found == project_name \in DOMAIN c
        g == utils_load_graph(c, project_name)
        what == [called |-> TRUE, project |-> project_name, found |-> found,
                 at |-> t,
                 last_update |-> IF found THEN g.last_update ELSE None,
                 num_deps |-> IF found THEN g.graph.num_deps ELSE 0,
                 rebuild |-> FALSE, installed |-> FALSE]
    IN IF ~found \/ g.graph.num_deps = 0
       THEN [state |-> run_build(S, project_name, window, t),
             loaded |-> [what EXCEPT !.rebuild = TRUE]]
       ELSE IF g.last_update < t - StaleAfter
            THEN [state |-> run_build(S, project_name, window, t),
                  loaded |-> [what EXCEPT !.rebuild = TRUE]]
            ELSE [state |-> [S EXCEPT !.graphs = Put(@, project_name, g)],
                  loaded |-> [what EXCEPT !.installed = TRUE]]

\* Variant: the current file is appended without being removed first.
usage_files_append(files, current_file) == Append(files, current_file)

\* GotoUsageCommand.run, lines 76-79: the current file last, and once
usage_files(files, current_file) ==
    Append(IF Contains(files, current_file)
           THEN RemoveFirst(files, current_file) ELSE files,
           current_file)

NoLoad == [called |-> FALSE]

NoQuery == [phase |-> "idle"]

\* The main thread is not inside a command.
MainIdle == query.phase # "loading"

SetState(S) ==
    /\ graphs' = S.graphs
    /\ building_graphs' = S.building_graphs
    /\ builds' = S.builds
    /\ loading_start' = S.loading_start

\* goto_usage_build_graph is run in a window, with the window's project name
\* or with none.
BuildCommand(window, project_name) ==
    /\ MainIdle
    /\ nevents < MaxEvents
    /\ SetState(run_build(PluginState, project_name, window, now))
    /\ loaded' = NoLoad
    /\ query' = NoQuery
    /\ nevents' = nevents + 1
    /\ UNCHANGED <<cache, imports, now, gvars, svars>>

\* The progress timer of build i fires.
ShowProgress(i) ==
    /\ MainIdle
    /\ builds[i].polling
    /\ SetState(show_progress(PluginState, i, now))
    /\ UNCHANGED <<cache, imports, now, loaded, query, nevents, gvars, svars>>

RECURSIVE walked(_, _, _)
\* core.build_graph, lines 301-308: for every file of the walk,
\* g['graph'].add(file_path, deps); all graphs the orders of deps can yield
walked(imp, todo, g) ==
    IF todo = <<>> THEN {g}
    ELSE UNION {walked(imp, Tail(todo), add(g, Head(todo), List(deps))) :
                  deps \in get_dependencies_in_file(imp, Head(todo))}

\* The worker of build i walks the project folders (the walk is one step:
\* it reads every file as it is on disk at that moment).
WorkerWalk(i) ==
    /\ builds[i].running
    /\ builds[i].todo # <<>>
    /\ \E g \in walked(imports, builds[i].todo, builds[i].g.graph) :
          builds' = [builds EXCEPT ![i].g.graph = g, ![i].todo = <<>>]
    /\ UNCHANGED <<graphs, building_graphs, loading_start, cache, imports, now,
                   loaded, query, nevents, gvars, svars>>

\* core.build_graph after the walk: last_update, then on_complete()
WorkerComplete(i) ==
    /\ builds[i].running
    /\ builds[i].todo = <<>>
    /\ LET name == builds[i].project_name
           g == [builds[i].g EXCEPT !.last_update = now]
       IN /\ building_graphs' =
                IF Contains(building_graphs, name)
                THEN RemoveFirst(building_graphs, name) ELSE building_graphs
          /\ graphs' = Put(graphs, name, g)
          /\ cache' = save_graph(cache, g, name)
          /\ builds' = Prune([builds EXCEPT ![i].running = FALSE,
                                            ![i].g = g])
    /\ UNCHANGED <<loading_start, imports, now, loaded, query, nevents, gvars, svars>>

\* GotoUsageCommand.run up to line 68, in a window whose view shows
\* current_file and where a subject was found.
QueryStart(window, current_file, disable_dep_graph) ==
    /\ MainIdle
    /\ nevents < MaxEvents
    /\ nevents' = nevents + 1
    /\ IF disable_dep_graph
       THEN /\ query' = [phase |-> "done", project |-> window,
                         current_file |-> current_file, did_load |-> FALSE,
                         result |-> "folders"]
            /\ loaded' = NoLoad
            /\ UNCHANGED <<graphs, building_graphs, builds, loading_start>>
       ELSE IF window \in DOMAIN graphs
            THEN /\ \E files \in Orderings(
                         get_dependants(graphs[window].graph,
                                        current_file).results) :
                       query' = [phase |-> "done", project |-> window,
                                 current_file |-> current_file,
                                 did_load |-> FALSE, result |-> "files",
                                 g |-> graphs[window],
                                 files |-> usage_files(files, current_file)]
                 /\ loaded' = NoLoad
                 /\ UNCHANGED <<graphs, building_graphs, builds,
                                loading_start>>
            ELSE LET r == load_graph(PluginState, cache, window, window, now)
                 IN /\ SetState(r.state)
                    /\ loaded' = r.loaded
                    /\ query' = [phase |-> "loading", project |-> window,
                                 current_file |-> current_file,
                                 load |-> r.loaded]
    /\ UNCHANGED <<cache, imports, now, gvars, svars>>

\* GotoUsageCommand.run from line 70: look the graph up again
QueryFinish ==
    /\ query.phase = "loading"
    /\ IF query.project \in DOMAIN graphs
       THEN \E files \in Orderings(
                    get_dependants(graphs[query.project].graph,
                                   query.current_file).results) :
                query' = [phase |-> "done", project |-> query.project,
                          current_file |-> query.current_file,
                          did_load |-> TRUE, load |-> query.load,
                          result |-> "files", g |-> graphs[query.project],
                          files |-> usage_files(files, query.current_file)]
       ELSE query' = [phase |-> "done", project |-> query.project,
                      current_file |-> query.current_file,
                      did_load |-> TRUE, load |-> query.load,
                      result |-> "none"]
    /\ UNCHANGED <<graphs, building_graphs, builds, loading_start, cache,
                   imports, now, loaded, nevents, gvars, svars>>

\* The user saves file_path with new imports in a window:
\* FileSaveListener.on_post_save_async -> core.refresh_dependencies.
\* save_graph is called there without its project_name argument, so the
\* cache file is not written.
SaveFile(window, file_path, new_imports) ==
    /\ nevents < MaxEvents
    /\ nevents' = nevents + 1
    /\ imports' = [imports EXCEPT ![file_path] = new_imports]
    /\ IF window \notin DOMAIN graphs
       THEN LET r == load_graph(PluginState, cache, window, window, now)
            IN SetState(r.state) /\ loaded' = r.loaded
       ELSE /\ \E direct_deps \in get_dependencies_in_file(imports', file_path) :
                 graphs' = [graphs EXCEPT
                     ![window].graph = set(@, file_path, List(direct_deps)),
                     ![window].last_update = now]
            /\ loaded' = IF MainIdle THEN NoLoad ELSE loaded
            /\ UNCHANGED <<building_graphs, builds, loading_start>>
    /\ query' = IF MainIdle THEN NoQuery ELSE query
    /\ UNCHANGED <<cache, now, gvars, svars>>

\* Variant: the cache files are removed but the registry is kept.
ClearCachesKeepRegistry ==
    /\ MainIdle
    /\ nevents < MaxEvents
    /\ nevents' = nevents + 1
    /\ IF building_graphs # <<>>
       THEN UNCHANGED <<cache, graphs>>
       ELSE cache' = EmptyDict /\ graphs' = graphs
    /\ loaded' = NoLoad
    /\ query' = NoQuery
    /\ UNCHANGED <<building_graphs, builds, loading_start, imports, now, gvars, svars>>

\* GotoUsageClearCachesCommand.run
ClearCaches ==
    /\ MainIdle
    /\ nevents < MaxEvents
    /\ nevents' = nevents + 1
    /\ IF building_graphs # <<>>
       THEN UNCHANGED <<cache, graphs>>
       ELSE cache' = EmptyDict /\ graphs' = EmptyDict
    /\ loaded' = NoLoad
    /\ query' = NoQuery
    /\ UNCHANGED <<building_graphs, builds, loading_start, imports, now, gvars, svars>>

\* More than the bail-out time of the progress display passes during a build.
Tick ==
    /\ building_graphs # <<>>
    /\ nevents < MaxEvents
    /\ nevents' = nevents + 1
    /\ now' = now + BailAfter + 1
    /\ UNCHANGED <<graphs, building_graphs, builds, loading_start, cache,
                   imports, loaded, query, gvars, svars>>

\* Ages of the cache file left by an earlier session.
CacheAges == {60 * 60, Day + 1, StaleAfter + 1}

\* Cache records left by an earlier session: the built graph, of some age.
InitialCacheRecords ==
    {[last_update |-> StartTime - age,
      graph |-> get_data(g)] :
        age \in CacheAges,
        g \in walked(InitialImports, WalkOrder, DepGraph(DefaultLoopLimit))}

GraphIdle ==
    /\ graph = DepGraph(DefaultLoopLimit)
    /\ snapshot = NoData
    /\ ret = NoRet
    /\ nops = 0

PluginInit ==
    /\ graphs = EmptyDict
    /\ building_graphs = <<>>
    /\ builds = <<>>
    /\ loading_start = EmptyDict
    /\ cache \in {EmptyDict} \cup {[x \in {"p"} |-> r] : r \in InitialCacheRecords}
    /\ imports = InitialImports
    /\ now = StartTime
    /\ loaded = NoLoad
    /\ query = NoQuery
    /\ nevents = 0
    /\ GraphIdle
    /\ ScanIdle

PluginNext ==
    \/ \E w \in Projects : \E pn \in {None, w} : BuildCommand(w, pn)
    \/ \E i \in 1..Len(builds) : ShowProgress(i)
    \/ \E i \in 1..Len(builds) : WorkerWalk(i)
    \/ \E i \in 1..Len(builds) : WorkerComplete(i)
    \/ \E w \in Projects, f \in Files, d \in BOOLEAN : QueryStart(w, f, d)
    \/ QueryFinish
    \/ \E w \in Projects, f \in Files :
          \E n \in SUBSET (Files \ {f}) : SaveFile(w, f, n)
    \/ ClearCaches
    \/ Tick

SpecPlugin == PluginInit /\ [][PluginNext]_vars

-----------------------------------------------------------------------------
(* core.py and utils.py: the genuine-usage predicate *)

\* Strings are lists of characters; positions are counted from 0 as in Python.
CharAt(s, i) == s[i + 1]

\* s[a:b]
Slice(s, a, b) == [k \in 1..(b - a) |-> s[a + k]]

\* s.startswith(t) at offset i
MatchesAt(s, t, i) ==
    /\ i + Len(t) <= Len(s)
    /\ \A k \in 1..Len(t) : s[i + k] = t[k]

StartsWith(s, t) == MatchesAt(s, t, 0)

EndsWith(s, t) == Len(t) <= Len(s) /\ MatchesAt(s, t, Len(s) - Len(t))

\* t in s
HasSubstring(s, t) == \E i \in 0..Len(s) : MatchesAt(s, t, i)

\* s.find(t, start): the first offset >= start at which t occurs, or -1
Find(s, t, start) ==
    IF \E i \in start..Len(s) : MatchesAt(s, t, i)
    THEN CHOOSE i \in start..Len(s) :
             MatchesAt(s, t, i) /\ \A j \in start..(i - 1) : ~MatchesAt(s, t, j)
    ELSE -1

RECURSIVE RStrip(_, _)
\* s.rstrip(chars)
RStrip(s, chars) ==
    IF s # <<>> /\ s[Len(s)] \in chars
    THEN RStrip(Slice(s, 0, Len(s) - 1), chars)
    ELSE s

\* utils.STRING_DELIMITERS; the third one, the backquote, is written out
STRING_DELIMITERS == <<"\"", "'", "backquote">>

RECURSIVE count_backslashes(_, _)
\* find_strings.count_backslashes: the backslashes that end at from_pos
count_backslashes(input, from_pos) ==
    IF from_pos >= 0 /\ CharAt(input, from_pos) = "\\"
    THEN 1 + count_backslashes(input, from_pos - 1)
    ELSE 0

RECURSIVE find_closing(_, _, _)
\* find_strings, lines 54-57: the next unescaped delim after offset next, or -1
find_closing(input, delim, next) ==
    LET n == Find(input, <<delim>>, next + 1)
    IN IF n = -1 THEN -1
       ELSE IF count_backslashes(input, n - 1) % 2 = 0 THEN n
       ELSE find_closing(input, delim, n)

RECURSIVE find_strings_of(_, _, _)
\* find_strings, lines 47-63: the ranges of one delimiter, searching on from
\* offset start + 1 (lines shorter than the 200 iterations of infinite())
find_strings_of(input, delim, start) ==
    LET first == Find(input, <<delim>>, start + 1)
    IN IF start + 1 > Len(input) \/ first = -1 THEN <<>>
       ELSE IF count_backslashes(input, first - 1) % 2 # 0
            THEN find_strings_of(input, delim, first + 1)
            ELSE LET next == find_closing(input, delim, first)
                 IN IF next = -1 THEN << <<first, Len(input)>> >>
                    ELSE << <<first, next>> >>
                         \o find_strings_of(input, delim, next)

\* (a, b) < (c, d) as Python orders tuples
RangeBefore(r, q) == r[1] < q[1] \/ (r[1] = q[1] /\ r[2] < q[2])

RECURSIVE SortedRanges(_)
\* sorted(string_ranges), given the ranges as a set
SortedRanges(S) ==
    IF S = {} THEN <<>>
    ELSE LET m == CHOOSE r \in S : \A q \in S \ {r} : RangeBefore(r, q)
         IN <<m>> \o SortedRanges(S \ {m})

\* utils.find_strings on a line in which no range occurs twice
find_strings(input) ==
    SortedRanges(UNION {Range(find_strings_of(input, STRING_DELIMITERS[k], -1)) :
                          k \in 1..Len(STRING_DELIMITERS)})

\* core.IGNORED_PREFIX
IGNORED_PREFIX ==
    {<<"i", "m", "p", "o", "r", "t">>, <<"i", "n", "c", "l", "u", "d", "e">>,
     <<"r", "e", "q", "u", "i", "r", "e">>,
     <<"f", "u", "n", "c", "t", "i", "o", "n">>, <<"c", "o", "n", "s", "t">>,
     <<"v", "a", "r">>, <<"l", "e", "t">>, <<"d", "e", "f">>,
     <<"c", "l", "a", "s", "s">>}

\* core.IGNORED_BEFORE
IGNORED_BEFORE ==
    {<<"i", "m", "p", "o", "r", "t">>, <<"i", "n", "c", "l", "u", "d", "e">>,
     <<"r", "e", "q", "u", "i", "r", "e">>}

\* core.IGNORED_SUFFIX
IGNORED_SUFFIX == {<<":">>, <<"=">>}

\* The characters the negated class of the two word-break tests excludes
\* (of the white space: space, tab, newline).
BreakChars ==
    {" ", "\t", "\n", "(", ")", "[", "]", "{", "}", ",", "+", "*", "/", "%",
     "!", ";", ":", "'", "\"", "=", "<", ">", "-"}

\* The characters rstrip(' \t ([{}])') removes.
StripChars == {" ", "\t", "(", "[", "{", "}", "]", ")"}

\* core.is_actual_usage, for a line that contains the subject
is_actual_usage(ln, subj) ==
    LET subject_pos == Find(ln, subj, 0)
        \* line.split(subject, 1)
        split0 == Slice(ln, 0, subject_pos)
        split1 == Slice(ln, subject_pos + Len(subj), Len(ln))
        before == RStrip(split0, StripChars)
        after == RStrip(split1, StripChars)
        strings == find_strings(ln)
    IN IF split0 # <<>> /\ split0[Len(split0)] \notin BreakChars THEN FALSE
       ELSE IF split0 # <<>> /\ \E e \in IGNORED_PREFIX : EndsWith(before, e)
       THEN FALSE
       ELSE IF split0 # <<>> /\ \E b \in IGNORED_BEFORE : HasSubstring(before, b)
       THEN FALSE
       ELSE IF split1 # <<>> /\ split1[1] \notin BreakChars THEN FALSE
       ELSE IF split1 # <<>> /\ \E e \in IGNORED_SUFFIX : StartsWith(after, e)
       THEN FALSE
       ELSE IF \E k \in 1..Len(strings) :
                  strings[k][1] < subject_pos /\ strings[k][2] > subject_pos
       THEN FALSE
       ELSE TRUE

-----------------------------------------------------------------------------
(* SpecUsage: is_actual_usage applied to the lines of a file *)

\* The subject searched for.
Foo == <<"F", "o", "o">>

\* What precedes the subject on a line.
Befores ==
    {<<>>,
     <<"c", "l", "a", "s", "s", " ">>,
     <<"l", "e", "t", " ">>,
     <<"i", "m", "p", "o", "r", "t", " ">>,
     <<"x", " ", "=", " ">>,
     <<"\"", "t", "h", "i", "s", " ", "m", "e", "n", "t", "i", "o", "n", "s", " ">>,
     <<"d", "e", "f", " ">>,
     <<"o", "b", "j", ".">>,
     <<"y">>,
     <<"r", "e", "t", "u", "r", "n", " ", "(">>,
     <<"i", "m", "p", "o", "r", "t", "a", "n", "t", "(">>,
     <<"x", " ", "=", " ", "\"", "a", "\"", " ", "+", " ">>,
     <<"c", "o", "n", "s", "t", "\t">>}

\* What follows the subject on a line.
Afters ==
    {<<>>,
     <<" ", "e", "x", "t", "e", "n", "d", "s", " ", "B", "a", "r">>,
     <<" ", "=", " ", "5">>,
     <<".", "b", "a", "r", "(", ")">>,
     <<" ", "f", "r", "o", "m", " ", "\"", ".", "/", "f", "o", "o", "\"">>,
     <<" ", "i", "n", " ", "a", " ", "s", "t", "r", "i", "n", "g", "\"">>,
     <<"(", ")">>,
     <<":", " ", "i", "n", "t">>,
     <<"=", "5">>,
     <<"\n">>,
     <<",", " ", "y", ")">>,
     <<" ", "+", " ", "\"", "b", "\"">>,
     <<"s">>,
     <<";", " ", "/", "/", " ", "F", "o", "o">>}

\* The scanned lines: the subject between a text before and a text after.
Lines == {b \o Foo \o a : b \in Befores, a \in Afters}

\* get_usages_in_file, lines 239-240, for one line that contains the subject
CheckUsage ==
    /\ ~usage.checked
    /\ HasSubstring(cur_line, cur_subject)
    /\ usage' = [checked |-> TRUE,
                 result |-> is_actual_usage(cur_line, cur_subject)]
    /\ UNCHANGED <<cur_line, cur_subject, fvars, search, rvars, string_ranges, nvars,
                   gvars, pvars>>

UsageInit ==
    /\ cur_line \in Lines
    /\ cur_subject = Foo
    /\ usage = [checked |-> FALSE, result |-> FALSE]
    /\ the_file = <<>>
    /\ yield_context = {}
    /\ caller = "none"
    /\ current_context = <<>>
    /\ line_nr = 0
    /\ line_start = 0
    /\ yielded = <<>>
    /\ usage_regions = <<>>
    /\ search = [status |-> "idle"]
    /\ undecodable = {}
    /\ refresh = [done |-> FALSE]
    /\ string_ranges = [found |-> FALSE]
    /\ view = [status |-> "idle"]
    /\ resolved = [status |-> "idle"]
    /\ GraphIdle
    /\ PluginIdle

UsageNext == CheckUsage

SpecUsage == UsageInit /\ [][UsageNext]_vars

-----------------------------------------------------------------------------
(* core.py: the line classifier parse_lines *)

\* The context masks, each as the set of its one-bits (bit 0 is the lowest).
C_ANY == 0..8

C_CODE == {0}

C_IMPORT == {1, 2, 3, 4}

C_SINGLE_IMPORT == {1}

C_MULTI_IMPORT_START == {2}

C_MULTI_IMPORT == {3}

C_MULTI_IMPORT_END == {4}

C_COMMENT == {5, 6, 7, 8}

C_SINGLE_COMMENT == {5}

C_MULTI_COMMENT_START == {6}

C_MULTI_COMMENT == {7}

C_MULTI_COMMENT_END == {8}

\* a & b as a truth value: the two masks share a one-bit
BitAnd(a, b) == a \cap b # {}

SINGLE_LINE_COMMENT == {<<"#">>, <<"/", "/">>}

MULTI_LINE_COMMENT_START == {<<"/", "*">>}

MULTI_LINE_COMMENT_END == {<<"/", "*">>}

RECURSIVE LStrip(_, _)
\* s.lstrip(chars)
LStrip(s, chars) ==
    IF s # <<>> /\ s[1] \in chars
    THEN LStrip(Slice(s, 1, Len(s)), chars)
    ELSE s

\* s.strip(chars)
Strip(s, chars) == RStrip(LStrip(s, chars), chars)

\* The characters \w matches.
WordChars ==
    {"a", "b", "c", "d", "e", "f", "g", "h", "i", "j", "k", "l", "m", "n",
     "o", "p", "q", "r", "s", "t", "u", "v", "w", "x", "y", "z", "A", "B",
     "C", "D", "E", "F", "G", "H", "I", "J", "K", "L", "M", "N", "O", "P",
     "Q", "R", "S", "T", "U", "V", "W", "X", "Y", "Z", "0", "1", "2", "3",
     "4", "5", "6", "7", "8", "9", "_"}

\* The characters \s matches.
SpaceChars == {" ", "\t", "\n"}

\* The quotes of the import patterns.
QuoteChars == {"'", "\""}

\* \b at offset i: exactly one of the characters around the offset is a \w
WordBoundary(s, i) ==
    (i > 0 /\ s[i] \in WordChars) # (i < Len(s) /\ s[i + 1] \in WordChars)

\* $ at offset i: the end of the string, or just before a final newline
AtEnd(s, i) == i = Len(s) \/ (i = Len(s) - 1 /\ s[Len(s)] = "\n")

\* The characters at offsets a .. b - 1 are all in (not in) a set.
AllIn(s, a, b, chars) == \A k \in (a + 1)..b : s[k] \in chars

NoneIn(s, a, b, chars) == \A k \in (a + 1)..b : s[k] \notin chars

\* (import|require|include)
ImportKeywords ==
    {<<"i", "m", "p", "o", "r", "t">>, <<"r", "e", "q", "u", "i", "r", "e">>,
     <<"i", "n", "c", "l", "u", "d", "e">>}

\* re.search(SINGLE_LINE_IMPORT_RE, s):
\*   \b(import|require|include)[^\[:.].*['"][^'"]+['"].*$
SINGLE_LINE_IMPORT_RE(s) ==
    \E i \in 0..Len(s) : \E kw \in ImportKeywords :
        LET j == i + Len(kw)
        IN /\ WordBoundary(s, i)
           /\ MatchesAt(s, kw, i)
           /\ j < Len(s)
           /\ s[j + 1] \notin {"[", ":", "."}
           /\ \E q1 \in (j + 1)..(Len(s) - 1) : \E q2 \in (q1 + 2)..(Len(s) - 1) :
                  /\ NoneIn(s, j + 1, q1, {"\n"})
                  /\ s[q1 + 1] \in QuoteChars
                  /\ NoneIn(s, q1 + 1, q2, QuoteChars)
                  /\ s[q2 + 1] \in QuoteChars
                  /\ \E e \in (q2 + 1)..Len(s) :
                         NoneIn(s, q2 + 1, e, {"\n"}) /\ AtEnd(s, e)

\* re.search(MULTI_LINE_IMPORT_START_RE, s):
\*   \b(import|require|include)\b[\s()\[\]{}]*$
MULTI_LINE_IMPORT_START_RE(s) ==
    \E i \in 0..Len(s) : \E kw \in ImportKeywords :
        LET j == i + Len(kw)
        IN /\ WordBoundary(s, i)
           /\ MatchesAt(s, kw, i)
           /\ WordBoundary(s, j)
           /\ \E e \in j..Len(s) :
                  /\ AllIn(s, j, e, SpaceChars \cup {"(", ")", "[", "]", "{", "}"})
                  /\ AtEnd(s, e)

\* re.search(MULTI_LINE_IMPORT_END_RE, s):   ^[)}\]](\s*from.+)?$
MULTI_LINE_IMPORT_END_RE(s) ==
    /\ s # <<>>
    /\ s[1] \in {")", "}", "]"}
    /\ \/ AtEnd(s, 1)
       \/ \E k \in 1..Len(s) : \E e \in (k + 5)..Len(s) :
              /\ AllIn(s, 1, k, SpaceChars)
              /\ MatchesAt(s, <<"f", "r", "o", "m">>, k)
              /\ NoneIn(s, k + 4, e, {"\n"})
              /\ AtEnd(s, e)

\* parse_lines, lines 164-223: one iteration of the loop, from the parser
\* state st on the line line_unstripped; yield holds the tuple yielded, if any
parse_line(st, line_unstripped, mask) ==
    LET ln == Strip(line_unstripped, {"\t", " ", ";"})
        ctx == st.current_context
        top == ctx[Len(ctx)]
        nr == st.line_nr + 1
        advanced == st.line_start + Len(line_unstripped)
        out(stack, start, emit) ==
            [current_context |-> stack, line_nr |-> nr, line_start |-> start,
             yield |-> IF emit THEN << <<st.line_start, nr, ln>> >> ELSE <<>>]
        popped == SubSeq(ctx, 1, Len(ctx) - 1)
    IN IF /\ ~BitAnd(top, C_MULTI_COMMENT)
          /\ \E c \in SINGLE_LINE_COMMENT : StartsWith(ln, c)
       THEN out(ctx, advanced, BitAnd(mask, C_COMMENT))
       ELSE IF /\ BitAnd(top, C_MULTI_COMMENT)
               /\ \E c \in MULTI_LINE_COMMENT_END : StartsWith(ln, c)
       THEN out(popped, advanced, BitAnd(mask, C_MULTI_COMMENT_END))
       ELSE IF /\ ~BitAnd(top, C_MULTI_COMMENT)
               /\ \E c \in MULTI_LINE_COMMENT_START : StartsWith(ln, c)
       THEN out(Append(ctx, C_MULTI_COMMENT), advanced,
                BitAnd(mask, C_MULTI_COMMENT_START))
       ELSE IF ~BitAnd(top, C_MULTI_IMPORT) /\ SINGLE_LINE_IMPORT_RE(ln)
       THEN out(ctx, advanced, BitAnd(mask, C_SINGLE_IMPORT))
       ELSE IF BitAnd(top, C_MULTI_IMPORT) /\ MULTI_LINE_IMPORT_END_RE(ln)
       THEN out(popped, advanced, BitAnd(mask, C_MULTI_IMPORT_END))
       ELSE IF ~BitAnd(top, C_MULTI_IMPORT) /\ MULTI_LINE_IMPORT_START_RE(ln)
       THEN out(Append(ctx, C_MULTI_IMPORT), advanced,
                BitAnd(mask, C_MULTI_IMPORT_START))
       ELSE IF BitAnd(mask, top)
       THEN out(ctx, advanced, TRUE)
       ELSE out(ctx, st.line_start, FALSE)

\* get_usages_in_file, lines 239-246: the records one yielded tuple adds
usage_records(tuple, subj) ==
    LET start == tuple[1]
        ln == tuple[3]
        offset == Find(ln, subj, 0)
    IN IF ~HasSubstring(ln, subj) THEN <<>>
       ELSE IF ~is_actual_usage(ln, subj) THEN <<>>
       ELSE << [line_nr |-> tuple[2],
                region |-> <<start + offset, start + offset + Len(subj)>>] >>

-----------------------------------------------------------------------------
(* SpecParse: parse_lines and get_usages_in_file reading a file *)

\* The longest file made of freely chosen lines.
MaxFileLen == 2

\* The line  x = 1
AssignLine ==
    <<"x", " ", "=", " ", "1", "\n">>

\* The line  Foo(Foo), indented by two spaces
IndentedLine ==
    <<" ", " ", "F", "o", "o", "(", "F", "o", "o", ")", "\n">>

\* The line  xFoo + Foo()
SecondLine ==
    <<"x", "F", "o", "o", " ", "+", " ", "F", "o", "o", "(", ")", "\n">>

\* The line  /*
BlockStartLine ==
    <<"/", "*", "\n">>

\* The line  * Foo, indented by one space
BlockBodyLine ==
    <<" ", "*", " ", "F", "o", "o", "\n">>

\* The line  */
BlockEndLine ==
    <<"*", "/", "\n">>

\* The line  // Foo
CommentLine ==
    <<"/", "/", " ", "F", "o", "o", "\n">>

\* The line  import Foo from 'b'
SingleImportLine ==
    <<"i", "m", "p", "o", "r", "t", " ", "F", "o", "o", " ", "f", "r", "o",
      "m", " ", "'", "b", "'", "\n">>

\* The line  import {
ImportStartLine ==
    <<"i", "m", "p", "o", "r", "t", " ", "{", "\n">>

\* The line  } from 'b'
ImportEndLine ==
    <<"}", " ", "f", "r", "o", "m", " ", "'", "b", "'", "\n">>

FileLines ==
    {AssignLine, IndentedLine, SecondLine, BlockStartLine, BlockBodyLine,
     BlockEndLine, CommentLine, SingleImportLine, ImportStartLine,
     ImportEndLine}

\* A block comment of three lines.
CommentBlock == <<BlockStartLine, BlockBodyLine, BlockEndLine>>

\* The lists of at most n lines.
LinesUpTo(n) == UNION {[1..k -> FileLines] : k \in 0..n}

\* The files read: short files of any lines, and the comment block between
\* ordinary lines.
SourceFiles ==
    LinesUpTo(MaxFileLen)
        \cup {pre \o CommentBlock \o post :
                  pre \in {<<>>, <<AssignLine>>},
                  post \in {<<IndentedLine>>, <<AssignLine, IndentedLine>>}}

\* Who reads the file, and with which mask: parse_lines by default,
\* find_imports_in_file (line 230) and get_usages_in_file (line 238).
Callers ==
    {[name |-> "parse_lines", mask |-> C_ANY],
     [name |-> "find_imports_in_file",
      mask |-> C_SINGLE_IMPORT \cup C_MULTI_IMPORT \cup C_MULTI_IMPORT_END],
     [name |-> "get_usages_in_file", mask |-> C_CODE]}

\* The next iteration of `for line_unstripped in f` and of the caller's loop.
ReadLine ==
    /\ line_nr < Len(the_file)
    /\ LET r == parse_line([current_context |-> current_context,
                            line_nr |-> line_nr, line_start |-> line_start],
                           the_file[line_nr + 1], yield_context)
       IN /\ current_context' = r.current_context
          /\ line_nr' = r.line_nr
          /\ line_start' = r.line_start
          /\ yielded' = yielded \o r.yield
          /\ usage_regions' =
                 IF caller = "get_usages_in_file" /\ r.yield # <<>>
                 THEN usage_regions \o usage_records(r.yield[1], cur_subject)
                 ELSE usage_regions
    /\ UNCHANGED <<the_file, yield_context, caller, cur_line, cur_subject,
                   usage, search, rvars, string_ranges, nvars, gvars, pvars>>

ParseInit ==
    /\ the_file \in SourceFiles
    /\ \E c \in Callers : caller = c.name /\ yield_context = c.mask
    /\ current_context = <<C_CODE>>
    /\ line_nr = 0
    /\ line_start = 0
    /\ yielded = <<>>
    /\ usage_regions = <<>>
    /\ search = [status |-> "idle"]
    /\ undecodable = {}
    /\ refresh = [done |-> FALSE]
    /\ string_ranges = [found |-> FALSE]
    /\ view = [status |-> "idle"]
    /\ resolved = [status |-> "idle"]
    /\ cur_line = <<>>
    /\ cur_subject = Foo
    /\ usage = [checked |-> FALSE, result |-> FALSE]
    /\ GraphIdle
    /\ PluginIdle

ParseNext == ReadLine

SpecParse == ParseInit /\ [][ParseNext]_vars

-----------------------------------------------------------------------------
(* SpecSearch: a usage search over several files, run in a RetValThread *)

RECURSIVE read_lines(_, _, _, _, _)
\* get_usages_in_file, lines 238-246: the loop over parse_lines(f, C_CODE),
\* from the parser state st at line k, with the records acc found so far
read_lines(lines, k, st, acc, subj) ==
    IF k > Len(lines) THEN acc
    ELSE LET r == parse_line(st, lines[k], C_CODE)
         IN read_lines(lines, k + 1,
                       [current_context |-> r.current_context,
                        line_nr |-> r.line_nr, line_start |-> r.line_start],
                       IF r.yield = <<>> THEN acc
                       ELSE acc \o usage_records(r.yield[1], subj),
                       subj)

\* get_usages_in_file on a file that decodes, with the path in each record
get_usages_in_file(file_path, lines, subj) ==
    LET found == read_lines(lines, 1,
                            [current_context |-> <<C_CODE>>, line_nr |-> 0,
                             line_start |-> 0], <<>>, subj)
    IN [k \in 1..Len(found) |->
           [path |-> file_path, line_nr |-> found[k].line_nr,
            region |-> found[k].region]]

\* The paths searched, in the order of the file list or of the folder walk.
SearchPaths == <<"a", "b", "c">>

\* What a path holds on disk: bytes that do not decode as utf8, or lines.
Undecodable == [decodable |-> FALSE, lines |-> <<>>]

FileContents ==
    {Undecodable,
     [decodable |-> TRUE, lines |-> <<AssignLine>>],
     [decodable |-> TRUE, lines |-> <<IndentedLine>>],
     [decodable |-> TRUE, lines |-> <<AssignLine, IndentedLine>>]}

\* get_usages_in_files (mode "files") or get_usages_in_folders (mode
\* "folders"): the body of the loop for the next file.  In get_usages_in_files
\* the handler of UnicodeDecodeError reads the name file_name, which is bound
\* nowhere in that function or module, so the handler raises NameError.
search_file(S) ==
    LET file_path == S.files[S.i + 1]
        content == S.disk[file_path]
    IN IF content.decodable
       THEN [S EXCEPT !.i = S.i + 1,
                      !.usage_list =
                          S.usage_list \o
                              get_usages_in_file(file_path, content.lines,
                                                 S.subject)]
       ELSE IF S.mode = "folders"
       THEN [S EXCEPT !.i = S.i + 1, !.warnings = S.warnings + 1]
       ELSE [S EXCEPT !.status = "raised", !.error = "NameError"]

\* RetValThread.run, first half: the target function handles the next file.
SearchFile ==
    /\ search.status = "running"
    /\ search.i < Len(search.files)
    /\ search' = search_file(search)
    /\ UNCHANGED <<cur_line, cur_subject, usage, fvars, rvars, string_ranges, nvars,
                   gvars, pvars>>

\* RetValThread.run, second half: the target returns usage_list and
\* on_complete is called with it.
SearchReturn ==
    /\ search.status = "running"
    /\ search.i = Len(search.files)
    /\ search' = [search EXCEPT !.status = "returned", !.completed = TRUE,
                                !.result = search.usage_list]
    /\ UNCHANGED <<cur_line, cur_subject, usage, fvars, rvars, string_ranges, nvars,
                   gvars, pvars>>

SearchInit ==
    /\ \E mode \in {"files", "folders"} :
       \E disk \in [Range(SearchPaths) -> FileContents] :
           search = [status |-> "running", mode |-> mode, disk |-> disk,
                     files |-> SearchPaths, subject |-> Foo, i |-> 0,
                     usage_list |-> <<>>, warnings |-> 0, error |-> "none",
                     completed |-> FALSE, result |-> <<>>]
    /\ cur_line = <<>>
    /\ cur_subject = <<>>
    /\ usage = [checked |-> FALSE, result |-> FALSE]
    /\ the_file = <<>>
    /\ yield_context = {}
    /\ caller = "none"
    /\ current_context = <<>>
    /\ line_nr = 0
    /\ line_start = 0
    /\ yielded = <<>>
    /\ usage_regions = <<>>
    /\ undecodable = {}
    /\ refresh = [done |-> FALSE]
    /\ string_ranges = [found |-> FALSE]
    /\ view = [status |-> "idle"]
    /\ resolved = [status |-> "idle"]
    /\ GraphIdle
    /\ PluginIdle

SearchNext == SearchFile \/ SearchReturn

SpecSearch == SearchInit /\ [][SearchNext]_vars

-----------------------------------------------------------------------------
(* SpecRefresh: builds and file-save refreshes over files that may not decode *)

\* The refreshes of one run.
MaxSaves == 3

\* core.get_dependencies_in_file, lines 287-297: the list of a file that
\* decodes; of one that does not, the except clause logs and the function
\* returns None.
dependencies_in_file(imp, bad, file_path) ==
    IF file_path \in bad THEN {Item(None)}
    ELSE {List(deps) : deps \in get_dependencies_in_file(imp, file_path)}

RECURSIVE build_walk(_, _, _, _)
\* core.build_graph, lines 301-308, over files of which those in bad do not
\* decode
build_walk(imp, bad, todo, g) ==
    IF todo = <<>> THEN {g}
    ELSE UNION {build_walk(imp, bad, Tail(todo), add(g, Head(todo), deps)) :
                  deps \in dependencies_in_file(imp, bad, Head(todo))}

\* core.refresh_dependencies, lines 326-333, on the graph record g at time t:
\* the outcomes.  The two get_dependees results are list(set(...)) and are
\* compared as lists; utils.save_graph(g) lacks the project_name argument of
\* save_graph(g, project_name) and raises TypeError before anything is written.
refresh_dependencies(g, imp, bad, file_path, t) ==
    UNION {LET after == set(g.graph, file_path, direct_deps)
           IN {[g |-> [g EXCEPT !.graph = after, !.last_update = t],
                direct_deps |-> direct_deps,
                before |-> Range(current_deps),
                after |-> Range(new_deps),
                raised |-> new_deps # current_deps,
                saved |-> FALSE] :
                   current_deps \in
                       Orderings(get_dependees(g.graph, file_path).results),
                   new_deps \in
                       Orderings(get_dependees(after, file_path).results)} :
              direct_deps \in dependencies_in_file(imp, bad, file_path)}

\* goto_usage_build_graph for project p, from the command to on_complete.
Rebuild ==
    /\ nevents < MaxSaves
    /\ nevents' = nevents + 1
    /\ \E built \in build_walk(imports, undecodable, WalkOrder,
                               DepGraph(DefaultLoopLimit)) :
           LET g == [last_update |-> now, graph |-> built]
           IN /\ graphs' = Put(graphs, "p", g)
              /\ cache' = save_graph(cache, g, "p")
    /\ refresh' = [done |-> FALSE]
    /\ UNCHANGED <<building_graphs, builds, imports, now, loaded, query,
                   loading_start, undecodable, cur_line, cur_subject, usage,
                   fvars, search, string_ranges, nvars, gvars>>

\* file_path of project p is saved, with new imports and decodable or not,
\* while the project's graph is in the registry: on_post_save_async calls
\* refresh_dependencies.
Refresh(file_path, new_imports, decodable) ==
    /\ nevents < MaxSaves
    /\ "p" \in DOMAIN graphs
    /\ nevents' = nevents + 1
    /\ imports' = [imports EXCEPT ![file_path] = new_imports]
    /\ undecodable' = IF decodable THEN undecodable \ {file_path}
                      ELSE undecodable \cup {file_path}
    /\ \E r \in refresh_dependencies(graphs["p"], imports', undecodable',
                                     file_path, now) :
           /\ graphs' = [graphs EXCEPT !["p"] = r.g]
           /\ refresh' = [done |-> TRUE, file_path |-> file_path,
                          decodable |-> decodable,
                          direct_deps |-> r.direct_deps,
                          before |-> r.before, after |-> r.after,
                          raised |-> r.raised, saved |-> r.saved]
    /\ UNCHANGED <<building_graphs, builds, cache, now, loaded, query,
                   loading_start, cur_line, cur_subject, usage, fvars, search,
                   string_ranges, nvars, gvars>>

RefreshInit ==
    /\ graphs = EmptyDict
    /\ building_graphs = <<>>
    /\ builds = <<>>
    /\ loading_start = EmptyDict
    /\ cache = EmptyDict
    /\ imports = InitialImports
    /\ now = StartTime
    /\ loaded = NoLoad
    /\ query = NoQuery
    /\ nevents = 0
    /\ undecodable \in SUBSET Files
    /\ refresh = [done |-> FALSE]
    /\ string_ranges = [found |-> FALSE]
    /\ view = [status |-> "idle"]
    /\ resolved = [status |-> "idle"]
    /\ cur_line = <<>>
    /\ cur_subject = <<>>
    /\ usage = [checked |-> FALSE, result |-> FALSE]
    /\ the_file = <<>>
    /\ yield_context = {}
    /\ caller = "none"
    /\ current_context = <<>>
    /\ line_nr = 0
    /\ line_start = 0
    /\ yielded = <<>>
    /\ usage_regions = <<>>
    /\ search = [status |-> "idle"]
    /\ GraphIdle

RefreshNext ==
    \/ Rebuild
    \/ \E file_path \in Files : \E n \in SUBSET (Files \ {file_path}) :
           \E d \in BOOLEAN : Refresh(file_path, n, d)

SpecRefresh == RefreshInit /\ [][RefreshNext]_vars

-----------------------------------------------------------------------------
(* SpecLoad: loading cache files that may be missing or corrupt *)

\* The loads of one run.
MaxLoads == 2

\* What a cache file can hold: text that is no JSON, JSON that lacks a field,
\* or a complete record.
CacheFiles ==
    {[valid_json |-> j, has_graph |-> hg, has_last_update |-> hl,
      last_update |-> r.last_update, graph |-> r.graph] :
        j \in BOOLEAN, hg \in BOOLEAN, hl \in BOOLEAN,
        r \in InitialCacheRecords}

\* The state of the cache file of a project.
FileCondition(c, project_name) ==
    IF project_name \notin DOMAIN c THEN "missing"
    ELSE IF ~c[project_name].valid_json THEN "not_json"
    ELSE IF ~c[project_name].has_graph THEN "no_graph"
    ELSE IF ~c[project_name].has_last_update THEN "no_last_update"
    ELSE "ok"

\* utils.load_graph, lines 153-164: what the try block raises past its
\* `except IOError` - json.loads raises ValueError on text that is no JSON,
\* data['graph'] and data['last_update'] raise KeyError on a missing field;
\* open() of a missing file raises IOError, which is caught (None returned).
utils_load_graph_raises(c, project_name) ==
    LET condition == FileCondition(c, project_name)
    IN IF condition = "not_json" THEN "ValueError"
       ELSE IF condition \in {"no_graph", "no_last_update"} THEN "KeyError"
       ELSE "none"

\* core.load_graph on any cache file: utils.load_graph is called outside any
\* try block (line 338), so what it raises leaves core.load_graph at once.
core_load_graph(S, c, project_name, window, t) ==
    LET error == utils_load_graph_raises(c, project_name)
        condition == FileCondition(c, project_name)
        r == load_graph(S, c, project_name, window, t)
    IN IF error # "none"
       THEN [state |-> S,
             loaded |-> [called |-> TRUE, project |-> project_name,
                         condition |-> condition, raised |-> error,
                         rebuild |-> FALSE, installed |-> FALSE]]
       ELSE [state |-> r.state,
             loaded |-> [called |-> TRUE, project |-> project_name,
                         condition |-> condition, raised |-> "none",
                         rebuild |-> r.loaded.rebuild,
                         installed |-> r.loaded.installed]]

\* core.load_graph(project_name) is called in the window of the project.
LoadGraph(project_name) ==
    /\ nevents < MaxLoads
    /\ nevents' = nevents + 1
    /\ LET r == core_load_graph(PluginState, cache, project_name,
                                project_name, now)
       IN SetState(r.state) /\ loaded' = r.loaded
    /\ UNCHANGED <<cache, imports, now, query, gvars, svars>>

LoadInit ==
    /\ graphs = EmptyDict
    /\ building_graphs = <<>>
    /\ builds = <<>>
    /\ loading_start = EmptyDict
    /\ \E present \in SUBSET Projects : cache \in [present -> CacheFiles]
    /\ imports = InitialImports
    /\ now = StartTime
    /\ loaded = NoLoad
    /\ query = NoQuery
    /\ nevents = 0
    /\ GraphIdle
    /\ ScanIdle

LoadNext == \E project_name \in Projects : LoadGraph(project_name)

SpecLoad == LoadInit /\ [][LoadNext]_vars

-----------------------------------------------------------------------------
(* SpecStrings: find_strings applied to lines of quotes and backslashes *)

\* The longest line.
MaxLineLen == 4

\* The characters of the lines: the delimiters, the backslash and a letter.
LineChars == {"\"", "'", "backquote", "\\", "a"}

\* All lines of at most n characters.
LinesOfLen(n) == UNION {[1..k -> LineChars] : k \in 0..n}

\* utils.find_strings(line)
FindStrings ==
    /\ ~string_ranges.found
    /\ string_ranges' = [found |-> TRUE, ranges |-> find_strings(cur_line)]
    /\ UNCHANGED <<cur_line, cur_subject, usage, fvars, search, rvars, nvars,
                   gvars, pvars>>

StringsInit ==
    /\ cur_line \in LinesOfLen(MaxLineLen)
    /\ cur_subject = <<>>
    /\ usage = [checked |-> FALSE, result |-> FALSE]
    /\ the_file = <<>>
    /\ yield_context = {}
    /\ caller = "none"
    /\ current_context = <<>>
    /\ line_nr = 0
    /\ line_start = 0
    /\ yielded = <<>>
    /\ usage_regions = <<>>
    /\ search = [status |-> "idle"]
    /\ undecodable = {}
    /\ refresh = [done |-> FALSE]
    /\ string_ranges = [found |-> FALSE]
    /\ view = [status |-> "idle"]
    /\ resolved = [status |-> "idle"]
    /\ GraphIdle
    /\ PluginIdle

StringsNext == FindStrings

SpecStrings == StringsInit /\ [][StringsNext]_vars

-----------------------------------------------------------------------------
(* SpecSubject: find_subject_name on a view *)

\* The longest view, in lines.
MaxViewLines == 3

\* The width of a line of the view and of the indentation of an indented one.
LineWidth == 8

IndentWidth == 2

\* CLASS_REGEX, FUNCTION_REGEX, VAR_REGEX in the order find_subject_name
\* tries them; a line is a definition of one of these kinds or of none.
DefinitionKinds == <<"class", "function", "var">>

\* The lines of a view: a definition of some kind, at column 0 or indented,
\* or a line no definition regex matches.
ViewLines ==
    {[kind |-> "other", indented |-> FALSE]}
        \cup {[kind |-> k, indented |-> i] :
                  k \in Range(DefinitionKinds), i \in BOOLEAN}

\* view.line(...) of line k: the region of the line without its terminator
LineRegion(k) ==
    [a |-> (k - 1) * (LineWidth + 1), b |-> (k - 1) * (LineWidth + 1) + LineWidth]

\* The name the definition on line k defines.
NameOn(lines, k) == <<lines[k].kind, k>>

\* view.find_all(regex['regex']): the regions the regex matches, in file
\* order; a match runs from the keyword to the end of its line
find_all(lines, kind) ==
    LET ks == SelectSeq([k \in 1..Len(lines) |-> k],
                        LAMBDA k : lines[k].kind = kind)
    IN [n \in 1..Len(ks) |->
           [a |-> LineRegion(ks[n]).a
                    + (IF lines[ks[n]].indented THEN IndentWidth ELSE 0),
            b |-> LineRegion(ks[n]).b,
            name |-> NameOn(lines, ks[n])]]

\* find_subject_name_on_current_line: re.match anchors the regex at the start
\* of the untrimmed line, so an indented definition does not match
find_subject_name_on_current_line(lines, cursor, kind) ==
    IF lines[cursor].kind = kind /\ ~lines[cursor].indented
    THEN [raised |-> "none", found |-> TRUE, name |-> NameOn(lines, cursor)]
    ELSE [raised |-> "none", found |-> FALSE, name |-> <<>>]

\* find_subject_name_upwards: the last match that ends before the cursor's
\* line; failing that, line 104 calls get_item_name, a name bound nowhere in
\* the module, which raises NameError
find_subject_name_upwards(lines, cursor, kind) ==
    LET regions == find_all(lines, kind)
        before == {n \in 1..Len(regions) :
                       regions[n].b < LineRegion(cursor).a}
    IN IF regions = <<>>
       THEN [raised |-> "none", found |-> FALSE, name |-> <<>>]
       ELSE IF before # {}
       THEN [raised |-> "none", found |-> TRUE,
             name |-> regions[CHOOSE n \in before :
                                  \A m \in before : m <= n].name]
       ELSE [raised |-> "NameError", found |-> FALSE, name |-> <<>>]

RECURSIVE first_found(_)
\* a or b or c ...: the first result that is truthy, or that raises
first_found(results) ==
    IF results = <<>> THEN [raised |-> "none", found |-> FALSE, name |-> <<>>]
    ELSE IF Head(results).raised # "none" \/ Head(results).found
    THEN Head(results)
    ELSE first_found(Tail(results))

\* core.find_subject_name
find_subject_name(lines, cursor) ==
    first_found(
        [n \in 1..Len(DefinitionKinds) |->
            find_subject_name_on_current_line(lines, cursor,
                                              DefinitionKinds[n])]
        \o [n \in 1..Len(DefinitionKinds) |->
               find_subject_name_upwards(lines, cursor, DefinitionKinds[n])])

\* GotoUsageCommand.run, line 33: subject = core.find_subject_name(self.view)
FindSubject ==
    /\ view.status = "open"
    /\ view' = [view EXCEPT !.status = "searched",
                            !.subject = find_subject_name(view.lines,
                                                          view.cursor)]
    /\ UNCHANGED <<cur_line, cur_subject, usage, fvars, search, rvars,
                   string_ranges, resolved, gvars, pvars>>

SubjectInit ==
    /\ \E n \in 1..MaxViewLines : \E lines \in [1..n -> ViewLines] :
       \E cursor \in 1..n :
           view = [status |-> "open", lines |-> lines, cursor |-> cursor,
                   subject |-> [raised |-> "none", found |-> FALSE,
                                name |-> <<>>]]
    /\ cur_line = <<>>
    /\ cur_subject = <<>>
    /\ usage = [checked |-> FALSE, result |-> FALSE]
    /\ the_file = <<>>
    /\ yield_context = {}
    /\ caller = "none"
    /\ current_context = <<>>
    /\ line_nr = 0
    /\ line_start = 0
    /\ yielded = <<>>
    /\ usage_regions = <<>>
    /\ search = [status |-> "idle"]
    /\ undecodable = {}
    /\ refresh = [done |-> FALSE]
    /\ string_ranges = [found |-> FALSE]
    /\ resolved = [status |-> "idle"]
    /\ GraphIdle
    /\ PluginIdle

SubjectNext == FindSubject

SpecSubject == SubjectInit /\ [][SubjectNext]_vars

-----------------------------------------------------------------------------
(* SpecResolve: utils.resolve_dep_paths for one raw import path *)

\* The roots tried: the importing file's directory, then the `root` setting.
MaxRoots == 2

\* The raw import path, and what a root can hold at and around it: the files
\* of the directory root/m, or the files of the root itself.
RawPath == "m"

DirFiles == {"x.js", "x.txt"}

RootFiles == {"m.js", "m.txt", "z.js"}

\* What root/m is on disk: a file (of some extension), a directory (holding
\* files), or nothing (with files in the root next to it); and which of the
\* folders the `excluded_folders` setting excludes: none, root/m only, or the
\* root (and everything below it).
Situations ==
    {[kind |-> "file", ext |-> e, files |-> {}, excluded |-> x] :
         e \in {"js", "txt"}, x \in {"none", "dir", "root"}}
    \cup {[kind |-> "dir", ext |-> "", files |-> fs, excluded |-> x] :
              fs \in SUBSET DirFiles, x \in {"none", "dir", "root"}}
    \cup {[kind |-> "none", ext |-> "", files |-> fs, excluded |-> x] :
              fs \in SUBSET RootFiles, x \in {"none", "dir", "root"}}

\* utils.file_filter with file_extensions = ['.js']
file_filter(file_name) == file_name \in {"x.js", "m.js", "z.js", "js"}

\* utils.folder_filter of the root, and of root/m
folder_filter_root(sit) == sit.excluded # "root"

folder_filter_dir(sit) == sit.excluded = "none"

\* os.path.basename(f).startswith(file_substr), file_substr being m
starts_with_raw(file_name) == file_name \in {"m.js", "m.txt"}

\* resolve_dep_paths.expand_path, lines 218-251, for root/m in root number k:
\* (found_file, passed_filter) and the paths added, in every listing order
expand_path(sit, k) ==
    LET none(found) == {[found_file |-> found, passed_filter |-> FALSE,
                         added |-> <<>>]}
        all(fs, prefix) ==
            {[found_file |-> TRUE, passed_filter |-> TRUE,
              added |-> [n \in 1..Len(o) |-> prefix \o <<o[n]>>]] :
                 o \in Orderings(fs)}
    IN IF sit.kind = "file"
       THEN IF ~file_filter(sit.ext) THEN none(TRUE)
            ELSE IF ~folder_filter_root(sit) THEN none(TRUE)
            ELSE {[found_file |-> TRUE, passed_filter |-> TRUE,
                   added |-> << <<k, RawPath>> >>]}
       ELSE IF sit.kind = "dir"
       THEN IF ~folder_filter_dir(sit) THEN none(TRUE)
            ELSE LET filtered == {f \in sit.files : file_filter(f)}
                 IN IF filtered = {} THEN none(sit.files # {})
                    ELSE all(filtered, <<k, RawPath>>)
       ELSE IF ~folder_filter_root(sit) THEN none(sit.files # {})
            ELSE LET matching == {f \in sit.files : starts_with_raw(f)}
                     filtered == {f \in matching : file_filter(f)}
                 IN IF filtered = {} THEN none(matching # {})
                    ELSE all(filtered, <<k>>)

RECURSIVE try_roots_no_break(_, _)
\* Variant: the loop over the roots has no break.
try_roots_no_break(disk, k) ==
    IF k > Len(disk) THEN {<<>>}
    ELSE UNION {{r.added \o rest : rest \in try_roots_no_break(disk, k + 1)} :
                   r \in expand_path(disk[k], k)}

RECURSIVE try_roots(_, _)
\* resolve_dep_paths, lines 257-263: the loop over the roots from root k on
try_roots(disk, k) ==
    IF k > Len(disk) THEN {<<>>}
    ELSE UNION {IF r.found_file /\ r.passed_filter THEN {r.added}
                ELSE try_roots(disk, k + 1) :
                   r \in expand_path(disk[k], k)}

\* utils.resolve_dep_paths([m], from_path, file_filter, folder_filter)
ResolveDepPaths ==
    /\ resolved.status = "asked"
    /\ \E paths \in try_roots(resolved.disk, 1) :
           resolved' = [resolved EXCEPT !.status = "resolved",
                                        !.resolved_paths = paths]
    /\ UNCHANGED <<cur_line, cur_subject, usage, fvars, search, rvars,
                   string_ranges, view, gvars, pvars>>

ResolveInit ==
    /\ \E n \in 1..MaxRoots : \E disk \in [1..n -> Situations] :
           resolved = [status |-> "asked", disk |-> disk,
                       resolved_paths |-> <<>>]
    /\ cur_line = <<>>
    /\ cur_subject = <<>>
    /\ usage = [checked |-> FALSE, result |-> FALSE]
    /\ the_file = <<>>
    /\ yield_context = {}
    /\ caller = "none"
    /\ current_context = <<>>
    /\ line_nr = 0
    /\ line_start = 0
    /\ yielded = <<>>
    /\ usage_regions = <<>>
    /\ search = [status |-> "idle"]
    /\ undecodable = {}
    /\ refresh = [done |-> FALSE]
    /\ string_ranges = [found |-> FALSE]
    /\ view = [status |-> "idle"]
    /\ GraphIdle
    /\ PluginIdle

ResolveNext == ResolveDepPaths

SpecResolve == ResolveInit /\ [][ResolveNext]_vars

-----------------------------------------------------------------------------
(* Reachability, defined on the edge relation *)

\* The forward edges p -> q recorded in a forward mapping.
Edges(fwd) == {e \in (DOMAIN fwd) \X Nodes : Contains(fwd[e[1]], e[2])}

Inverse(E) == {<<e[2], e[1]>> : e \in E}

Successors(E, S) == {e[2] : e \in {f \in E : f[1] \in S}}

RECURSIVE Steps(_, _, _)
Steps(E, x, k) ==
    IF k = 0 THEN {}
    ELSE Successors(E, {x} \cup Steps(E, x, k - 1))

\* The nodes reachable from x by at least one and at most k edges of E (the
\* set grows with k and is complete after as many steps as there are nodes).
WithinSteps(E, x, k) ==
    Steps(E, x, IF k < Cardinality(Nodes) THEN k ELSE Cardinality(Nodes))

\* The nodes reachable from x by one or more edges of E.
Reachable(E, x) == Steps(E, x, Cardinality(Nodes))

-----------------------------------------------------------------------------
(* Claims about DepGraph *)

\* C1: after any sequence of add and set calls, q is in forward[p] if and
\* only if p is in backward[q].
C1_Symmetric ==
    \A p \in Nodes, q \in Nodes :
        Contains(Get(graph.forward_graph, p), q)
            <=> Contains(Get(graph.backward_graph, q), p)

\* C2: on a graph built only by add calls, when every node of the closure
\* lies within loop_limit edges of x, get_dependees(x) is exactly the set of
\* nodes reachable from x by one or more forward edges and get_dependants(x)
\* exactly the set of nodes from which x is reachable.
C2_Closure ==
    LET E == Edges(graph.forward_graph)
        x == ret.subject
    IN /\ (ret.op = "get_dependees"
            /\ Reachable(E, x) = WithinSteps(E, x, graph.loop_limit))
           => ret.results = Reachable(E, x)
       /\ (ret.op = "get_dependants"
            /\ Reachable(Inverse(E), x)
                 = WithinSteps(Inverse(E), x, graph.loop_limit))
           => ret.results = Reachable(Inverse(E), x)

\* C2 witness: the edges a->b, a->c, b->c, b->d, and get_dependees(a)
\* returned {b, c, d}.
C2_Witness ==
    /\ Edges(graph.forward_graph)
         = {<<"a", "b">>, <<"a", "c">>, <<"b", "c">>, <<"b", "d">>}
    /\ graph.loop_limit = DefaultLoopLimit
    /\ ret.op = "get_dependees"
    /\ ret.subject = "a"
    /\ ret.results = {"b", "c", "d"}

\* C4: num_deps equals the total number of forward edges.
C4_NumDeps == graph.num_deps = SumLens(graph.forward_graph)

\* C5: add(a, b) twice leaves the graph in the same state (forward, backward
\* and num_deps) as add(a, b) once.
C5_AddIdempotent ==
    \A p \in Dependants, d \in Dependees :
        add(add(graph, p, Item(d)), p, Item(d)) = add(graph, p, Item(d))

\* C6: a traversal expands at most loop_limit levels, stops as soon as a
\* level yields no new node (every level but the last adds a node), and
\* returns only nodes reachable from the start node in the mapping traversed.
C6_Terminates ==
    LET g == IF ret.op = "get_dependants" THEN graph.backward_graph
             ELSE graph.forward_graph
    IN ret.op # "none"
       => /\ ret.levels <= graph.loop_limit
          /\ ret.levels <= Cardinality(ret.results) + 1
          /\ ret.results \subseteq Reachable(Edges(g), ret.subject)

\* C6 witness: a query on the cycle a->b->a returned the start node too.
C6_Witness ==
    /\ ret.op = "get_dependees"
    /\ ret.subject = "a"
    /\ Contains(Get(graph.forward_graph, "a"), "b")
    /\ Contains(Get(graph.forward_graph, "b"), "a")
    /\ ret.results = {"a", "b"}
    /\ ret.levels = 3

-----------------------------------------------------------------------------
(* Claims about the plugin *)

\* The running workers that build project `name`.
Workers(name) ==
    {i \in 1..Len(builds) : builds[i].running /\ builds[i].project_name = name}

\* C3: at most one build worker runs per project at any time: a build
\* command for a project that is being built, given with its project name
\* or with none, starts no second worker.
C3_OneBuildPerProject ==
    \A name \in Projects : Cardinality(Workers(name)) <= 1

\* C7: load_graph on a cached record with at least one edge runs a rebuild if
\* and only if last_update is more than 24 hours before the current time; a
\* record at most 24 hours old is installed in the registry.
C7_StaleAfterOneDay ==
    (loaded.called /\ loaded.found /\ loaded.num_deps > 0)
        => /\ loaded.rebuild <=> (loaded.at - loaded.last_update > Day)
           /\ (loaded.at - loaded.last_update <= Day) => loaded.installed

\* The goto_usage command has finished after loading a cached graph with
\* edges that load_graph took for stale (it ran the build command).
StaleLoadQuery ==
    /\ query.phase = "done"
    /\ query.result # "folders"
    /\ query.did_load
    /\ query.load.found
    /\ query.load.num_deps > 0
    /\ query.load.rebuild

\* C8 (as claimed): the stale graph that load_graph found is installed and
\* the query that caused the load consults it.
C8_StaleGraphConsulted ==
    StaleLoadQuery
        => /\ query.result = "files"
           /\ query.g.last_update = query.load.last_update

\* C8 (amended): the stale graph is not installed and never consulted: the
\* query that caused the load returns with no search, unless the rebuild
\* has completed by then and installed a newly built graph.
C8_StaleGraphNotConsulted ==
    StaleLoadQuery
        => \/ query.result = "none"
           \/ /\ query.result = "files"
              /\ query.g.last_update >= query.load.at

\* C8 witness: a query loaded a stale graph and returned with no search.
C8_Witness == StaleLoadQuery /\ query.result = "none"

-----------------------------------------------------------------------------
(* Claims about the genuine-usage predicate *)

\* The line  class Foo extends Bar
ClassLine ==
    <<"c", "l", "a", "s", "s", " ", "F", "o", "o", " ", "e", "x", "t", "e",
      "n", "d", "s", " ", "B", "a", "r">>

\* The line  let Foo = 5
LetLine ==
    <<"l", "e", "t", " ", "F", "o", "o", " ", "=", " ", "5">>

\* The line  x = Foo.bar()
CallLine ==
    <<"x", " ", "=", " ", "F", "o", "o", ".", "b", "a", "r", "(", ")">>

\* The line  import Foo from "./foo"
ImportLine ==
    <<"i", "m", "p", "o", "r", "t", " ", "F", "o", "o", " ", "f", "r", "o",
      "m", " ", "\"", ".", "/", "f", "o", "o", "\"">>

\* The line  "this mentions Foo in a string"
StringLine ==
    <<"\"", "t", "h", "i", "s", " ", "m", "e", "n", "t", "i", "o", "n", "s",
      " ", "F", "o", "o", " ", "i", "n", " ", "a", " ", "s", "t", "r", "i",
      "n", "g", "\"">>

\* The verdict of is_actual_usage on a line, once it has been checked.
Verdict(ln, accepted) ==
    (usage.checked /\ cur_line = ln /\ cur_subject = Foo)
        => (usage.result = accepted)

\* C10: for subject Foo, is_actual_usage rejects the class, let, import and
\* in-string lines and accepts the line  x = Foo.bar()
C10_ExampleVerdicts ==
    /\ Verdict(ClassLine, FALSE)
    /\ Verdict(LetLine, FALSE)
    /\ Verdict(ImportLine, FALSE)
    /\ Verdict(StringLine, FALSE)
    /\ Verdict(CallLine, TRUE)


-----------------------------------------------------------------------------
(* Claims about the usage finder and the line classifier *)

\* The three genuine-usage conditions of is_actual_usage (word breaks around
\* the occurrence, no definition or import keyword before it and no `:` or
\* `=` after it, not inside a string literal), for the occurrence at pos.
GenuineAt(ln, subj, pos) ==
    LET split0 == Slice(ln, 0, pos)
        split1 == Slice(ln, pos + Len(subj), Len(ln))
        before == RStrip(split0, StripChars)
        after == RStrip(split1, StripChars)
        strings == find_strings(ln)
    IN /\ split0 # <<>> =>
              /\ split0[Len(split0)] \in BreakChars
              /\ \A e \in IGNORED_PREFIX : ~EndsWith(before, e)
              /\ \A b \in IGNORED_BEFORE : ~HasSubstring(before, b)
       /\ split1 # <<>> =>
              /\ split1[1] \in BreakChars
              /\ \A e \in IGNORED_SUFFIX : ~StartsWith(after, e)
       /\ \A k \in 1..Len(strings) :
              ~(strings[k][1] < pos /\ strings[k][2] > pos)

\* get_usages_in_file has read the whole file.
UsagesReturned == caller = "get_usages_in_file" /\ line_nr = Len(the_file)

\* C11: once get_usages_in_file has read the file, every genuine occurrence
\* of the subject in a line yielded as code has a usage record of its own
C11_AllUsages ==
    UsagesReturned =>
        \A k \in 1..Len(yielded) :
            \A pos \in 0..Len(yielded[k][3]) :
                (/\ MatchesAt(yielded[k][3], cur_subject, pos)
                 /\ GenuineAt(yielded[k][3], cur_subject, pos))
                    => \E r \in Range(usage_regions) :
                           /\ r.line_nr = yielded[k][2]
                           /\ r.region[1] = yielded[k][1] + pos


RECURSIVE TextLen(_, _)
\* The length of the original text of the first n lines of a file.
TextLen(file, n) == IF n = 0 THEN 0 ELSE TextLen(file, n - 1) + Len(file[n])

\* C12: every tuple parse_lines yields carries as its offset the length of the
\* original text of all the lines before the yielded line, whatever the mask
C12_Offsets ==
    \A k \in 1..Len(yielded) :
        yielded[k][1] = TextLen(the_file, yielded[k][2] - 1)


\* Lines that are neither comments nor imports.
OrdinaryLines == {AssignLine, IndentedLine, SecondLine}

\* The file holds the three-line block comment after n ordinary lines, and
\* only ordinary lines after it.
BlockAfter(n) ==
    /\ n + 3 <= Len(the_file)
    /\ SubSeq(the_file, n + 1, n + 3) = CommentBlock
    /\ \A m \in (1..n) \cup ((n + 4)..Len(the_file)) :
           the_file[m] \in OrdinaryLines

\* The numbers of the lines yielded.
YieldedLineNrs == {yielded[k][2] : k \in 1..Len(yielded)}

\* C13: under the code-only mask the three lines of a block comment are not
\* yielded, its last line pops the comment context, and the ordinary lines
\* after the block are yielded as code
C13_BlockComment ==
    UsagesReturned =>
        \A n \in 0..Len(the_file) :
            BlockAfter(n) =>
                /\ YieldedLineNrs \cap ((n + 1)..(n + 3)) = {}
                /\ current_context = <<C_CODE>>
                /\ (n + 4)..Len(the_file) \subseteq YieldedLineNrs


-----------------------------------------------------------------------------
(* Claims about the multi-file search *)

RECURSIVE UsagesOf(_, _, _)
\* The usages of the decodable files among the first n files, in order.
UsagesOf(S, n, subj) ==
    IF n = 0 THEN <<>>
    ELSE UsagesOf(S, n - 1, subj) \o
             (IF S.disk[S.files[n]].decodable
              THEN get_usages_in_file(S.files[n], S.disk[S.files[n]].lines,
                                      subj)
              ELSE <<>>)

\* The search in either mode has stopped: its thread has ended.
SearchEnded == search.status \in {"returned", "raised"}

\* C14: a search over several files, by file list or by folder walk, never
\* raises on an undecodable file: it ends by calling on_complete with the
\* usages of every decodable file
C14_UndecodableSkipped ==
    SearchEnded =>
        /\ search.status = "returned"
        /\ search.completed
        /\ search.result = UsagesOf(search, Len(search.files), search.subject)


-----------------------------------------------------------------------------
(* Claims about builds and refreshes *)

\* The node None occurs in a graph, as a key or in a list.
HasNoneNode(g) ==
    \/ None \in (DOMAIN g.forward_graph) \cup (DOMAIN g.backward_graph)
    \/ \E k \in DOMAIN g.forward_graph : Contains(g.forward_graph[k], None)
    \/ \E k \in DOMAIN g.backward_graph : Contains(g.backward_graph[k], None)

\* C15: a file that does not decode contributes no edge to the graph a build
\* or a refresh leaves in the registry: there is no edge to a null node, and
\* num_deps counts nothing on its account
C15_NoEdgeForUndecodable ==
    \A name \in DOMAIN graphs :
        /\ ~HasNoneNode(graphs[name].graph)
        /\ \A file_path \in undecodable :
               Get(graphs[name].graph.forward_graph, file_path) = <<>>


\* C17: a refresh of a decodable file in a project whose graph is in the
\* registry raises nothing, leaves forward[f] equal to the direct dependencies
\* just computed, and writes the cache file exactly when the dependee set of
\* the file changed
C17_RefreshSaves ==
    (refresh.done /\ refresh.decodable) =>
        /\ ~refresh.raised
        /\ Range(graphs["p"].graph.forward_graph[refresh.file_path])
               = Range(refresh.direct_deps.items)
        /\ refresh.saved <=> (refresh.after # refresh.before)


-----------------------------------------------------------------------------
(* Claims about the cache *)

\* C16: loading a cache file that is missing or corrupt never raises: the
\* rebuild is triggered and the registry is left as it was
C16_LoadNeverRaises ==
    (loaded.called /\ loaded.condition # "ok") =>
        /\ loaded.raised = "none"
        /\ loaded.rebuild
        /\ ~loaded.installed
        /\ loaded.project \notin DOMAIN graphs


\* C18: the clear-caches command removes every cache file and empties the
\* registry when no project is building, and changes neither when one is
C18_ClearCaches ==
    [][ClearCaches =>
           IF building_graphs = <<>>
           THEN cache' = EmptyDict /\ graphs' = EmptyDict
           ELSE cache' = cache /\ graphs' = graphs]_vars

\* A build has run to completion (time has passed, no worker is left), and
\* the cache file and registry entry it wrote are gone again.
C18_Witness ==
    /\ now > StartTime
    /\ builds = <<>>
    /\ building_graphs = <<>>
    /\ cache = EmptyDict
    /\ graphs = EmptyDict


-----------------------------------------------------------------------------
(* Claims about snapshots *)

\* G loaded into a fresh graph has G's two mappings and counts G's edges.
SameGraph(loaded_graph, G) ==
    /\ loaded_graph.forward_graph = G.forward_graph
    /\ loaded_graph.backward_graph = G.backward_graph
    /\ loaded_graph.num_deps = SumLens(G.forward_graph)

-----------------------------------------------------------------------------
(* Claims about find_strings *)

\* The character at offset i of the line is a delimiter that is not escaped:
\* an even number of backslashes ends just before it.
Unescaped(ln, i, delim) ==
    /\ i < Len(ln)
    /\ CharAt(ln, i) = delim
    /\ count_backslashes(ln, i - 1) % 2 = 0

\* The range runs from an unescaped delimiter to the next unescaped delimiter
\* of the same kind, or to the end of the line if there is none.
IsString(ln, r) ==
    \E k \in 1..Len(STRING_DELIMITERS) :
        LET delim == STRING_DELIMITERS[k]
        IN /\ Unescaped(ln, r[1], delim)
           /\ \A i \in (r[1] + 1)..(r[2] - 1) : ~Unescaped(ln, i, delim)
           /\ r[2] = Len(ln) \/ Unescaped(ln, r[2], delim)

\* C20: find_strings returns ranges sorted by start offset, no two of them
\* overlapping, each one a string from an unescaped delimiter to the next
\* unescaped delimiter of its kind or to the end of the line
C20_StringRanges ==
    string_ranges.found =>
        LET rs == string_ranges.ranges
        IN /\ \A i, j \in 1..Len(rs) :
                  i < j => /\ rs[i][1] <= rs[j][1]
                           /\ rs[i][2] < rs[j][1]
           /\ \A i \in 1..Len(rs) : IsString(cur_line, rs[i])


-----------------------------------------------------------------------------
(* Claims about the subject *)

\* The lines of a view that define something of a kind.
LinesOfKind(lines, kind) == {k \in 1..Len(lines) : lines[k].kind = kind}

\* No definition regex matches the cursor's line.
NoneOnCursorLine(v) ==
    v.lines[v.cursor].kind = "other" \/ v.lines[v.cursor].indented

\* The first kind, in the order tried, that has a match in the view, has no
\* match above the cursor's line.
FallbackCase(v, n) ==
    /\ NoneOnCursorLine(v)
    /\ \A m \in 1..(n - 1) : LinesOfKind(v.lines, DefinitionKinds[m]) = {}
    /\ LinesOfKind(v.lines, DefinitionKinds[n]) # {}
    /\ \A k \in LinesOfKind(v.lines, DefinitionKinds[n]) : k >= v.cursor

\* C21: when no regex matches the cursor's line and the matches of a regex
\* all lie at or after the cursor's line, find_subject_name returns the name
\* of the first match in the file and does not fail; it returns None only
\* when no definition pattern matches anywhere
C21_SubjectFallback ==
    view.status = "searched" =>
        /\ view.subject.raised = "none"
        /\ \A n \in 1..Len(DefinitionKinds) :
               FallbackCase(view, n) =>
                   /\ view.subject.found
                   /\ \E k \in LinesOfKind(view.lines, DefinitionKinds[n]) :
                          /\ view.subject.name = NameOn(view.lines, k)
                          /\ \A j \in LinesOfKind(view.lines,
                                                  DefinitionKinds[n]) : k <= j
        /\ ~view.subject.found =>
               \A n \in 1..Len(DefinitionKinds) :
                   LinesOfKind(view.lines, DefinitionKinds[n]) = {}


-----------------------------------------------------------------------------
(* Claims about path resolution *)

\* The files root k offers for the raw path that the filters let through:
\* the file root/m itself, else the files of the directory root/m, else the
\* files of the root whose names begin with m.
Accepted(sit, k) ==
    IF sit.kind = "file"
    THEN IF sit.ext = "js" /\ sit.excluded # "root"
         THEN {<<k, RawPath>>} ELSE {}
    ELSE IF sit.kind = "dir"
    THEN IF sit.excluded = "none"
         THEN {<<k, RawPath, f>> : f \in sit.files \cap {"x.js"}} ELSE {}
    ELSE IF sit.excluded # "root"
         THEN {<<k, f>> : f \in sit.files \cap {"m.js"}} ELSE {}

\* The roots with an accepted result.
AcceptingRoots(disk) == {k \in 1..Len(disk) : Accepted(disk[k], k) # {}}

\* C22: the resolved paths are the accepted files of the first root, in the
\* order tried, that has any - none from a later root, and nothing from a
\* root whose match the filters exclude
C22_FirstAcceptedRoot ==
    resolved.status = "resolved" =>
        LET roots == AcceptingRoots(resolved.disk)
            paths == resolved.resolved_paths
        IN /\ roots = {} => paths = <<>>
           /\ roots # {} =>
                  LET first == CHOOSE k \in roots : \A j \in roots : k <= j
                  IN Range(paths) = Accepted(resolved.disk[first], first)

\* The first root's match is excluded by the filters and the second root has
\* accepted files, which are the result.
C22_Witness ==
    /\ resolved.status = "resolved"
    /\ Len(resolved.disk) = MaxRoots
    /\ resolved.disk[1].kind = "dir"
    /\ resolved.disk[1].files = {"x.txt"}
    /\ Accepted(resolved.disk[2], 2) # {}
    /\ Range(resolved.resolved_paths) = Accepted(resolved.disk[2], 2)


-----------------------------------------------------------------------------
(* Claims about the progress poll *)

\* Build i is still reported in progress more than 60 seconds after it
\* started.
OverdueBuild(i) ==
    /\ builds[i].running
    /\ Contains(building_graphs, builds[i].project_name)
    /\ now - loading_start[builds[i].window] > BailAfter

\* C23: every build still reported in progress 60 seconds after it started
\* has a progress poll pending that clears its flag - also a build started
\* while another project's build was in progress
C23_PollClearsOverdueBuild ==
    \A i \in 1..Len(builds) : OverdueBuild(i) => builds[i].polling


-----------------------------------------------------------------------------
(* Claims about set *)

\* What set(p, dep) is to leave behind, going from graph g to graph h.
SetFrame(g, h, p, dep) ==
    /\ Range(Get(h.forward_graph, p)) = Range(dep.items)
    /\ Len(Get(h.forward_graph, p)) = Cardinality(Range(dep.items))
    /\ \A q \in Nodes \ {p} :
          Get(h.forward_graph, q) = Get(g.forward_graph, q)
    /\ h.num_deps - g.num_deps
         = Cardinality(Range(dep.items)) - Len(Get(g.forward_graph, p))

\* C24: set(p, L) leaves forward[p] holding exactly the distinct elements of
\* L and every other forward[q] as it was, and changes num_deps by the number
\* of edges added minus p's previous out-degree
C24_SetFrame ==
    [][\A p \in Dependants, dep \in DependeeArgs :
          CallSet(p, dep) => SetFrame(graph, graph', p, dep)]_vars


-----------------------------------------------------------------------------
(* Claims about usage regions *)

RECURSIVE FileText(_)
\* The content of a file: its lines one after the other.
FileText(file) ==
    IF file = <<>> THEN <<>> ELSE Head(file) \o FileText(Tail(file))

\* C25: the region of every usage record get_usages_in_file returns spans the
\* subject in the file's content - the characters from region start to region
\* end are the subject - also on an indented line
C25_RegionSpansSubject ==
    caller = "get_usages_in_file" =>
        \A r \in Range(usage_regions) :
            Slice(FileText(the_file), r.region[1], r.region[2]) = cur_subject


-----------------------------------------------------------------------------
(* Claims about the registry during a build *)

\* A record whose last_update is still None: one under construction.
UnderConstruction(r) == ToString(r.last_update) = ToString(None)

\* No registry entry is a record still under construction, while every
\* running build's record is one.
NoPartialRecord ==
    /\ \A n \in DOMAIN graphs : ~UnderConstruction(graphs[n])
    /\ \A i \in 1..Len(builds) :
           builds[i].running => UnderConstruction(builds[i].g)

\* The builds whose worker has not completed.
RunningBuilds(bs) == {i \in 1..Len(bs) : bs[i].running}

\* A step in which a worker completes: its record enters the registry then,
\* with the walk finished and last_update set.
InstalledWhenComplete ==
    Cardinality(RunningBuilds(builds')) < Cardinality(RunningBuilds(builds))
        => \E i \in RunningBuilds(builds) :
               LET n == builds[i].project_name
               IN /\ builds[i].todo = <<>>
                  /\ n \in DOMAIN graphs'
                  /\ graphs'[n].graph = builds[i].g.graph
                  /\ ~UnderConstruction(graphs'[n])
                  /\ graphs'[n].last_update = now

\* C26: while a build runs the registry entry of its project is absent or a
\* complete record installed before, never the record under construction;
\* the new record enters the registry only after the walk has finished and
\* last_update has been set
C26_WholesaleReplace == [](NoPartialRecord) /\ [][InstalledWhenComplete]_vars

\* A build of p has finished its walk and not yet completed, while the
\* registry still holds the record of p installed before, a different graph.
C26_Witness ==
    \E i \in 1..Len(builds) :
        /\ builds[i].running
        /\ builds[i].todo = <<>>
        /\ builds[i].project_name \in DOMAIN graphs
        /\ graphs[builds[i].project_name].graph # builds[i].g.graph
        /\ ~UnderConstruction(graphs[builds[i].project_name])


-----------------------------------------------------------------------------
(* Claims about a refresh during a build *)

\* The registry's record r has, for file_path, the direct dependencies of the
\* file's saved content.
AgreesWithDisk(r, file_path) ==
    \E deps \in get_dependencies_in_file(imports, file_path) :
        Range(Get(r.graph.forward_graph, file_path)) = Range(deps)

\* The builds of project n whose worker has not completed.
RunningBuildsOf(bs, n) == {i \in RunningBuilds(bs) : bs[i].project_name = n}

\* C27: a refresh made while a build of the same project runs is not lost:
\* the completion of the build does not take the dependencies of a saved
\* file's content out of the registry
C27_RefreshNotLost ==
    [][\A n \in Projects, file_path \in Files :
          (/\ Cardinality(RunningBuildsOf(builds', n))
                < Cardinality(RunningBuildsOf(builds, n))
           /\ n \in DOMAIN graphs
           /\ AgreesWithDisk(graphs[n], file_path))
              => AgreesWithDisk(graphs'[n], file_path)]_vars

====
